---- MODULE Spec2Model ----
(***************************************************************************)
(* weasyprint server (src/server.py): the POST / handler render_pdf, its   *)
(* helpers save_part_to_file and stream_file, and the URLFetcher guard.    *)
(*                                                                         *)
(* A path or a URL is a string in the source.  Here it is the sequence of  *)
(* its tokens: "/" and ":" and "?" and "#" are tokens of their own, every  *)
(* other token is a run of name characters.  Two strings are equal exactly *)
(* when their token sequences are.                                         *)
(***************************************************************************)
EXTENDS Integers, Sequences, FiniteSets, TLC

\* server.py:28
CHUNK_SIZE == 65536

\* Python's None where a string is expected (a part without name or filename)
None == <<"<None>">>

\* no writer: the src of bytes two writers share, and of a file never read
Nobody == <<0, 0>>

(***************************************************************************)
(* Strings, paths (os.path) and URLs (urllib.parse.urlparse)               *)
(***************************************************************************)

Last(s) == s[Len(s)]

Front(s) == SubSeq(s, 1, Len(s) - 1)

Min(a, b) == IF a <= b THEN a ELSE b

Max(a, b) == IF a >= b THEN a ELSE b

\* str.startswith on a field name: the token before the first "." plus the dot
StartsWith(name, prefix) ==
    /\ Len(name) >= Len(prefix)
    /\ SubSeq(name, 1, Len(prefix)) = prefix

\* the names between the "/" of a path string, empty names included
RECURSIVE SplitSlash(_, _, _)
SplitSlash(p, i, cur) ==
    IF i > Len(p) THEN <<cur>>
    ELSE IF p[i] = "/" THEN <<cur>> \o SplitSlash(p, i + 1, <<>>)
    ELSE SplitSlash(p, i + 1, cur \o <<p[i]>>)

\* a name of a path is one token, or empty: <<>> stands for ""
NameOf(c) == IF c = <<>> THEN "" ELSE c[1]

Split(p) ==
    LET parts == SplitSlash(p, 1, <<>>)
    IN  [i \in 1..Len(parts) |-> NameOf(parts[i])]

IsAbs(p) == p # <<>> /\ p[1] = "/"

\* os.path.join(directory, filename)
Join(a, b) ==
    IF IsAbs(b) THEN b
    ELSE IF a = <<>> \/ Last(a) = "/" THEN a \o b
    ELSE a \o <<"/">> \o b

\* os.path.basename
Basename(p) == Last(SplitSlash(p, 1, <<>>))

\* posixpath.normpath: the names left after "" and "." are dropped and ".."
\* has taken back the name before it (at the root ".." is dropped)
RECURSIVE Collapse(_, _, _)
Collapse(names, i, acc) ==
    IF i > Len(names) THEN acc
    ELSE IF names[i] \in {"", "."} THEN Collapse(names, i + 1, acc)
    ELSE IF names[i] = ".."
         THEN IF acc # <<>> /\ Last(acc) # ".."
              THEN Collapse(names, i + 1, Front(acc))
              ELSE Collapse(names, i + 1, acc)
    ELSE Collapse(names, i + 1, Append(acc, names[i]))

RECURSIVE Unsplit(_)
Unsplit(names) ==
    IF names = <<>> THEN <<>>
    ELSE IF Len(names) = 1 THEN <<names[1]>>
    ELSE <<names[1], "/">> \o Unsplit(Tail(names))

\* POSIX keeps exactly two leading slashes
LeadingSlashes(p) ==
    IF Len(p) >= 2 /\ p[1] = "/" /\ p[2] = "/" /\ ~(Len(p) >= 3 /\ p[3] = "/")
    THEN <<"/", "/">> ELSE <<"/">>

\* the working directory of the server process
Cwd == <<"/", "home", "/", "user", "/", "project">>

\* os.path.abspath: normpath(join(cwd, path))
Abspath(p) ==
    LET full == Join(Cwd, p)
    IN  LeadingSlashes(full) \o Unsplit(Collapse(Split(full), 1, <<>>))

SchemeTokens == {"data", "file", "FILE", "http", "https", "ftp"}

Lower(t) == IF t = "FILE" THEN "file" ELSE t

\* the tokens of s before the first token of stops
RECURSIVE Before(_, _)
Before(s, stops) ==
    IF s = <<>> \/ s[1] \in stops THEN <<>>
    ELSE <<s[1]>> \o Before(Tail(s), stops)

\* urllib.parse.urlparse: scheme (lower-cased), netloc, path
Urlparse(url) ==
    LET hasScheme == Len(url) >= 2 /\ url[1] \in SchemeTokens /\ url[2] = ":"
        rest      == IF hasScheme THEN SubSeq(url, 3, Len(url)) ELSE url
        hasNetloc == Len(rest) >= 2 /\ rest[1] = "/" /\ rest[2] = "/"
        afterSl   == IF hasNetloc THEN SubSeq(rest, 3, Len(rest)) ELSE rest
        netloc    == IF hasNetloc THEN Before(afterSl, {"/", "?", "#"}) ELSE <<>>
        afterNl   == SubSeq(afterSl, Len(netloc) + 1, Len(afterSl))
    IN  [scheme |-> IF hasScheme THEN Lower(url[1]) ELSE "",
         netloc |-> netloc,
         path   |-> Before(afterNl, {"?", "#"})]

(***************************************************************************)
(* dict (insertion ordered): a sequence of [key, val], one entry per key   *)
(***************************************************************************)

DictHas(d, k) == \E i \in 1..Len(d) : d[i].key = k

DictGet(d, k) == d[CHOOSE i \in 1..Len(d) : d[i].key = k].val

DictSetFirstWins(d, k, v) ==
    IF DictHas(d, k) THEN d ELSE Append(d, [key |-> k, val |-> v])

\* d[k] = v: a key already present keeps its place and takes the new value
DictSet(d, k, v) ==
    IF DictHas(d, k)
    THEN [i \in 1..Len(d) |-> IF d[i].key = k THEN [key |-> k, val |-> v] ELSE d[i]]
    ELSE Append(d, [key |-> k, val |-> v])

\* d.values()
Values(d) == [i \in 1..Len(d) |-> d[i].val]

Range(s) == {s[i] : i \in 1..Len(s)}

(***************************************************************************)
(* The file system: dirs holds the directories, files maps each regular    *)
(* file to its content.  A file or directory is named by the sequence of   *)
(* its names from the root.  A content is [src, len, by]: len bytes that   *)
(* writer src produced (Nobody once two writers' bytes share the file),    *)
(* and by, the requests that have opened the file for writing.             *)
(***************************************************************************)

NoFile == [ok |-> FALSE, path |-> <<>>]

\* the file a path string names when opened for writing, as the kernel walks it
RECURSIVE Walk(_, _, _, _)
Walk(names, i, cur, d) ==
    IF i > Len(names) THEN NoFile
    ELSE LET c    == names[i]
             last == i = Len(names)
         IN  IF c \in {"", "."}
             THEN IF last THEN NoFile ELSE Walk(names, i + 1, cur, d)
             ELSE IF c = ".."
             THEN IF last THEN NoFile
                  ELSE Walk(names, i + 1, IF cur = <<>> THEN cur ELSE Front(cur), d)
             ELSE IF last
             THEN IF Append(cur, c) \in d THEN NoFile
                  ELSE [ok |-> TRUE, path |-> Append(cur, c)]
             ELSE IF Append(cur, c) \in d
                  THEN Walk(names, i + 1, Append(cur, c), d)
                  ELSE NoFile

Resolve(p, d) == IF IsAbs(p) THEN Walk(Split(p), 1, <<>>, d) ELSE NoFile

\* the directory a directory path string names
DirOf(p) == Collapse(Split(p), 1, <<>>)

Under(ws, f) == Len(f) > Len(ws) /\ SubSeq(f, 1, Len(ws)) = ws

\* open(path, 'wb') by request r as writer w: the file is created or truncated
OpenWrite(f, path, r, w) ==
    [q \in DOMAIN f \cup {path} |->
        IF q = path
        THEN [src |-> w, len |-> 0,
              by  |-> (IF path \in DOMAIN f THEN f[path].by ELSE {}) \cup {r}]
        ELSE f[q]]

\* file_.write(chunk) of n bytes at the writer's own offset off
WriteAt(f, path, w, off, n) ==
    IF path \notin DOMAIN f THEN f
    ELSE [f EXCEPT ![path] =
            IF f[path].src = w
            THEN [src |-> w, len |-> off + n, by |-> f[path].by]
            ELSE [src |-> Nobody, len |-> Max(f[path].len, off + n),
                  by |-> f[path].by]]

\* shutil.rmtree of a workspace: the directory and everything under it
RmtreeDirs(ws, d) == {x \in d : x # ws /\ ~Under(ws, x)}

RmtreeFiles(ws, f) == [q \in {x \in DOMAIN f : ~Under(ws, x)} |-> f[q]]

(***************************************************************************)
(* URLFetcher (server.py:32-49)                                            *)
(***************************************************************************)

Delegated == "default_url_fetcher"

DeniedPath == "ValueError: Only known path allowed"

DeniedExternal == "ValueError: External resources are not allowed"

\* self.valid_paths is form_data.values(): "in" compares strings
URLFetcherMissingAbspath(valid_paths, url) ==
    LET parsed == Urlparse(url)
    IN  IF parsed.scheme = "data" THEN Delegated
        ELSE IF parsed.scheme \in {"", "file"} /\ parsed.path # <<>>
        THEN IF parsed.path \in Range(valid_paths)
             THEN Delegated ELSE DeniedPath
        ELSE DeniedExternal

\* URLFetcher.__call__
URLFetcher(valid_paths, url) ==
    LET parsed == Urlparse(url)
    IN  IF parsed.scheme = "data" THEN Delegated
        ELSE IF parsed.scheme \in {"", "file"} /\ parsed.path # <<>>
        THEN IF Abspath(parsed.path) \in Range(valid_paths)
             THEN Delegated ELSE DeniedPath
        ELSE DeniedExternal

(***************************************************************************)
(* render_pdf: classification and the engine's inputs                      *)
(***************************************************************************)

HtmlName == <<"html">>

CssName == <<"css">>

AttachmentPrefix == <<"attachment", ".">>

AssetPrefix == <<"asset", ".">>

RecognizedEverything(name) == TRUE

\* server.py:68-72 (the name is a string here)
Recognized(name) ==
    \/ name \in {HtmlName, CssName}
    \/ StartsWith(name, AttachmentPrefix)
    \/ StartsWith(name, AssetPrefix)

RECURSIVE AttachmentsFrom(_, _)
AttachmentsFrom(d, i) ==
    IF i > Len(d) THEN <<>>
    ELSE (IF StartsWith(d[i].key, AttachmentPrefix) THEN <<d[i].val>> ELSE <<>>)
         \o AttachmentsFrom(d, i + 1)

RECURSIVE AttachmentsReversedFrom(_, _)
AttachmentsReversedFrom(d, i) ==
    IF i > Len(d) THEN <<>>
    ELSE AttachmentsReversedFrom(d, i + 1)
         \o (IF StartsWith(d[i].key, AttachmentPrefix) THEN <<d[i].val>> ELSE <<>>)

AttachmentsReversed(d) == AttachmentsReversedFrom(d, 1)

\* server.py:99-102
Attachments(d) == AttachmentsFrom(d, 1)

\* the two url(...) of the built-in stylesheet, server.py:88-97
FontURL(name) ==
    <<"file", ":", "/", "/", "/", "home", "/", "user", "/", "project", "/", name>>

DefaultCssUrls == {FontURL("Zeitung-Micro-Pro.ttf"), FontURL("Tisa-Pro.ttf")}

PdfName == <<"output.pdf">>

(***************************************************************************)
(* The server: one coroutine per request on one event loop                 *)
(***************************************************************************)

VARIABLES
    pc,         \* per request: the await it is suspended at, or the line it runs
    loop,       \* the request that runs between two awaits (0: the loop is free)
    temp_dir,   \* per request: render_pdf's temp_dir (<<>>: not yet created)
    form_data,  \* per request: render_pdf's form_data
    part,       \* per request: the part save_part_to_file is writing
    dirs,       \* the directories on disk
    files,      \* the regular files on disk
    engine,     \* per request: what the rendering engine was called with and did
    outfile,    \* per request: stream_file's open file and the chunk it holds
    response,   \* per request: what the client has been sent
    received,   \* per request: the parts reader.next() has returned so far
    outcome,    \* per request: how the handler ended, and where
    health,     \* what GET /healthcheck has answered, and how often
    rmtree_fails \* the file system refuses to delete (shutil.rmtree raises)

vars == <<pc, loop, temp_dir, form_data, part, dirs, files, engine, outfile,
          response, received, outcome, health, rmtree_fails>>

Reqs == {1, 2}

\* parts of one request body
MaxParts == 3

\* parts of one request body when two requests run side by side
MaxConcParts == 1

Part(name, filename, size) == [name |-> name, filename |-> filename, size |-> size]

\* the parts a client sends: field name, declared filename, payload bytes
PartMenu ==
    { Part(HtmlName, <<"doc.html">>, 1),
      Part(HtmlName, PdfName, 1),
      Part(CssName, <<"style.css">>, 1),
      Part(CssName, None, 1),
      Part(<<"attachment", ".", "a">>, <<"a.png">>, CHUNK_SIZE + 1),
      Part(<<"attachment", ".", "b">>, <<"b.png">>, 1),
      Part(<<"attachment", ".", "a">>, <<"b.png">>, 0),
      Part(<<"attachment", ".", "b">>, <<"sub", "/", "a.png">>, 1),
      Part(<<"asset", ".", "x">>, <<"..", "/", "x.png">>, 1),
      Part(<<"asset", ".", "x">>, <<"/", "tmp", "/", "x.png">>, 1),
      Part(<<"asset", ".", "y">>, <<"a.png">>, 1),
      Part(<<"attachment">>, <<"a.png">>, 1),
      Part(None, <<"a.png">>, 1) }

ConcPartMenu ==
    { Part(HtmlName, <<"doc.html">>, 1),
      Part(HtmlName, <<"/", "tmp", "/", "x.png">>, CHUNK_SIZE + 1),
      Part(<<"attachment", ".", "a">>, <<"a.png">>, 1) }

Menu(full) == IF full THEN PartMenu ELSE ConcPartMenu

PartLimit(full) == IF full THEN MaxParts ELSE MaxConcParts

\* the sizes of the document the engine writes
ArtifactSizes(full) ==
    IF full THEN {0, CHUNK_SIZE, CHUNK_SIZE + 1}
    ELSE {0, CHUNK_SIZE + 1}

FileURL(path) == <<"file", ":", "/", "/">> \o path

\* the URLs the document of a request in workspace ws makes the engine fetch
UrlMenu(ws, full) ==
    IF full
    THEN { <<"data", ":", "text", "/", "plain;base64,AAAA">>,
           <<"http", ":", "/", "/", "example.com", "/", "x.png">>,
           <<"file", ":">>,
           <<"a.png">>,
           Join(ws, <<"b.png">>),
           FileURL(Join(ws, <<"a.png">>)),
           FileURL(Join(ws, <<"sub", "/", "..", "/", "a.png">>)),
           FileURL(Join(ws, <<"..", "/", "x.png">>)),
           FileURL(<<"/", "tmp", "/", "x.png">>),
           <<"FILE", ":", "/", "/", "host">> \o Join(ws, <<"doc.html">>) }
    ELSE { <<"data", ":", "text", "/", "plain;base64,AAAA">>,
           FileURL(<<"/", "tmp", "/", "x.png">>) }

\* tempfile.gettempdir()
TmpRoot == <<"/", "tmp">>

TempNames == <<"tmpA", "tmpB">>

\* tempfile.mkdtemp(): a directory of a random name that is not in use; made
\* is the number of directories made so far, and each gets a name of its own
Mkdtemp(made) == Join(TmpRoot, <<TempNames[made + 1]>>)

\* the workspaces created so far
Made == Cardinality({r \in Reqs : temp_dir[r] # <<>>})

NoPart == [name |-> <<>>, filepath |-> <<>>, file |-> <<>>, left |-> 0, off |-> 0, k |-> 0]

NoData == [src |-> Nobody, lo |-> 0, hi |-> 0]

NoOut == [file |-> <<>>, off |-> 0, data |-> NoData]

NoRead == [path |-> <<>>, src |-> Nobody]

NoEngine ==
    [calls |-> {}, html |-> NoRead, css |-> "unset", cssfile |-> NoRead,
     attachments |-> <<>>, fetch |-> {}, artifact |-> [src |-> Nobody, len |-> 0]]

NoHeaders == [ctype |-> "", cdisp |-> <<>>]

NoResponse == [status |-> 0, text |-> "", headers |-> NoHeaders, chunks |-> <<>>, eof |-> 0]

Running == [how |-> "running", at |-> "", exc |-> "", teardown |-> "none"]

NoHealth == [status |-> 0, text |-> "", n |-> 0]

\* the module-level temp_dir = tempfile.mkdtemp() (server.py:30) is tmp0
InitDirs ==
    { <<>>, <<"tmp">>, <<"tmp", "tmp0">>, <<"etc">>,
      <<"home">>, <<"home", "user">>, <<"home", "user", "project">> }

InitWith(arrived, faults) ==
    /\ pc = [r \in Reqs |-> IF r \in arrived THEN "multipart" ELSE "absent"]
    /\ loop = 0
    /\ temp_dir = [r \in Reqs |-> <<>>]
    /\ form_data = [r \in Reqs |-> <<>>]
    /\ part = [r \in Reqs |-> NoPart]
    /\ dirs = InitDirs
    /\ files = <<>>
    /\ engine = [r \in Reqs |-> NoEngine]
    /\ outfile = [r \in Reqs |-> NoOut]
    /\ response = [r \in Reqs |-> NoResponse]
    /\ received = [r \in Reqs |-> <<>>]
    /\ outcome = [r \in Reqs |-> Running]
    /\ health = NoHealth
    /\ rmtree_fails \in faults

\* one request
Init == InitWith({1}, {FALSE})

\* two requests side by side
InitConc == InitWith(Reqs, {FALSE})

\* one request and the healthcheck
InitHealth == InitWith({1}, {FALSE})

\* one request on a file system that may refuse to delete
InitFault == InitWith({1}, BOOLEAN)

(***************************************************************************)
(* Leaving the handler                                                     *)
(***************************************************************************)

InternalServerError == "500 Internal Server Error"

\* what aiohttp sends for a handler that raised: a 500 of its own, unless the
\* response has begun (then the connection is only closed)
FrameworkError(resp) ==
    IF resp.status = 0
    THEN [resp EXCEPT !.status = 500, !.text = InternalServerError]
    ELSE resp

WithExitDirsLeak(ws, d) == d

\* the end of "with tempfile.TemporaryDirectory() as temp_dir" (server.py:60)
WithExitDirs(ws, d) == IF ws = <<>> THEN d ELSE RmtreeDirs(DirOf(ws), d)

WithExitFiles(ws, f) == IF ws = <<>> THEN f ELSE RmtreeFiles(DirOf(ws), f)

\* TemporaryDirectory.__exit__ -> cleanup() -> rmtree: "ok", or "failed" when
\* rmtree raises (ignore_cleanup_errors is not set), "none" outside the with
Teardown(ws) ==
    IF ws = <<>> THEN "none" ELSE IF rmtree_fails THEN "failed" ELSE "ok"

\* the handler of r ends (returns, raises or is cancelled) with resp for the
\* client; an exception of __exit__ takes the place of the return value or of
\* the exception under way, and aiohttp answers it like any other
Finish(r, how, exc, resp) ==
    LET teardown == Teardown(temp_dir[r])
    IN  /\ pc' = [pc EXCEPT ![r] = "done"]
        /\ loop' = 0
        /\ dirs' = IF teardown = "failed" THEN dirs
                   ELSE WithExitDirs(temp_dir[r], dirs)
        /\ files' = IF teardown = "failed" THEN files
                    ELSE WithExitFiles(temp_dir[r], files)
        /\ part' = [part EXCEPT ![r] = NoPart]
        /\ outfile' = [outfile EXCEPT ![r] = NoOut]
        /\ response' = [response EXCEPT ![r] =
                           IF teardown = "failed" /\ how # "abort"
                           THEN FrameworkError(IF how = "return" /\ resp.eof = 0
                                               THEN response[r] ELSE resp)
                           ELSE resp]
        /\ outcome' = [outcome EXCEPT ![r] =
                          [how |-> how, at |-> pc[r], exc |-> exc,
                           teardown |-> teardown]]

Raise(r, exc) == Finish(r, "raise", exc, FrameworkError(response[r]))

(***************************************************************************)
(* render_pdf: ingestion (server.py:52-73, 114-128)                        *)
(***************************************************************************)

\* reader = await request.multipart(); with TemporaryDirectory() as temp_dir
Multipart(r) ==
    /\ pc[r] = "multipart"
    /\ loop = 0
    /\ \E wellformed \in BOOLEAN :
         IF wellformed
         THEN /\ temp_dir' = [temp_dir EXCEPT ![r] = Mkdtemp(Made)]
              /\ dirs' = dirs \cup {DirOf(Mkdtemp(Made))}
              /\ pc' = [pc EXCEPT ![r] = "next"]
              /\ UNCHANGED <<loop, files, part, outfile, response, outcome>>
         ELSE /\ Raise(r, "ValueError")
              /\ UNCHANGED temp_dir
    /\ UNCHANGED <<form_data, engine, received>>
    /\ UNCHANGED <<health, rmtree_fails>>

\* part = await reader.next() returns a part p; an accepted part is opened
\* for writing
NextPart(r, full) ==
    /\ pc[r] = "next"
    /\ loop = 0
    /\ Len(received[r]) < PartLimit(full)
    /\ \E p \in Menu(full) :
         LET k        == Len(received[r]) + 1
             filepath == Join(temp_dir[r], p.filename)
             file     == Resolve(filepath, dirs)
         IN  /\ received' = [received EXCEPT ![r] = Append(@, p)]
             /\ IF p.name = None THEN Raise(r, "AttributeError")
                ELSE IF ~Recognized(p.name)
                THEN UNCHANGED <<pc, loop, dirs, files, part, outfile, response,
                                 outcome>>
                ELSE IF p.filename = None THEN Raise(r, "TypeError")
                ELSE IF ~file.ok THEN Raise(r, "OSError")
                ELSE /\ files' = OpenWrite(files, file.path, r, <<r, k>>)
                     /\ part' = [part EXCEPT ![r] =
                                   [name |-> p.name, filepath |-> filepath,
                                    file |-> file.path, left |-> p.size,
                                    off |-> 0, k |-> k]]
                     /\ pc' = [pc EXCEPT ![r] = "read_chunk"]
                     /\ UNCHANGED <<loop, dirs, outfile, response, outcome>>
    /\ UNCHANGED <<temp_dir, form_data, engine>>
    /\ UNCHANGED <<health, rmtree_fails>>

\* await reader.next() raises: the body is not well-formed multipart
NextMalformed(r) ==
    /\ pc[r] = "next"
    /\ loop = 0
    /\ Raise(r, "ValueError")
    /\ UNCHANGED <<temp_dir, form_data, engine, received>>
    /\ UNCHANGED <<health, rmtree_fails>>

\* chunk = await part.read_chunk(CHUNK_SIZE), then write it or leave the loop
ReadChunk(r) ==
    /\ pc[r] = "read_chunk"
    /\ loop = 0
    /\ LET chunk == Min(CHUNK_SIZE, part[r].left)
       IN  IF chunk = 0
           THEN /\ form_data' = [form_data EXCEPT ![r] =
                                   DictSet(@, part[r].name, part[r].filepath)]
                /\ part' = [part EXCEPT ![r] = NoPart]
                /\ pc' = [pc EXCEPT ![r] = "next"]
                /\ UNCHANGED files
           ELSE /\ files' = WriteAt(files, part[r].file, <<r, part[r].k>>,
                                    part[r].off, chunk)
                /\ part' = [part EXCEPT ![r].left = @ - chunk, ![r].off = @ + chunk]
                /\ UNCHANGED <<form_data, pc>>
    /\ UNCHANGED <<loop, temp_dir, dirs, engine, outfile, response, received, outcome>>
    /\ UNCHANGED <<health, rmtree_fails>>

NextEndSkipsValidation(r) ==
    /\ pc[r] = "next"
    /\ loop = 0
    /\ pc' = [pc EXCEPT ![r] = "css"]
    /\ loop' = r
    /\ UNCHANGED <<temp_dir, form_data, part, dirs, files, engine, outfile,
                   response, received, outcome>>
    /\ UNCHANGED <<health, rmtree_fails>>

\* await reader.next() returns None
NextEnd(r) ==
    /\ pc[r] = "next"
    /\ loop = 0
    /\ pc' = [pc EXCEPT ![r] = "validate"]
    /\ loop' = r
    /\ UNCHANGED <<temp_dir, form_data, part, dirs, files, engine, outfile,
                   response, received, outcome>>
    /\ UNCHANGED <<health, rmtree_fails>>

(***************************************************************************)
(* render_pdf: validation and rendering (server.py:75-112), one run        *)
(* between two awaits: no other request runs meanwhile                     *)
(***************************************************************************)

BadRequest == [NoResponse EXCEPT !.status = 400, !.text = "No html file provided."]

RenderFailed == [NoResponse EXCEPT !.status = 500, !.text = "PDF generation failed."]

\* if 'html' not in form_data
Validate(r) ==
    /\ pc[r] = "validate"
    /\ loop = r
    /\ IF ~DictHas(form_data[r], HtmlName)
       THEN Finish(r, "return", "", BadRequest)
       ELSE /\ pc' = [pc EXCEPT ![r] = "html"]
            /\ UNCHANGED <<loop, dirs, files, part, outfile, response, outcome>>
    /\ UNCHANGED <<temp_dir, form_data, engine, received>>
    /\ UNCHANGED <<health, rmtree_fails>>

\* what the engine reads when it opens the file at path
ReadFile(path) ==
    LET f == Resolve(path, dirs)
    IN  IF f.ok /\ f.path \in DOMAIN files
        THEN [path |-> path, src |-> files[f.path].src]
        ELSE NoRead

\* html = HTML(filename=form_data['html'], url_fetcher=URLFetcher(...))
Html(r) ==
    /\ pc[r] = "html"
    /\ loop = r
    /\ \E ok \in BOOLEAN :
         LET read == ReadFile(DictGet(form_data[r], HtmlName))
         IN  /\ engine' = [engine EXCEPT ![r].calls = @ \cup {"HTML"},
                                         ![r].html = read]
             /\ IF ok /\ read # NoRead
                THEN /\ pc' = [pc EXCEPT ![r] = "css"]
                     /\ UNCHANGED <<loop, dirs, files, part, outfile, response,
                                    outcome>>
                ELSE Raise(r, "Exception")
    /\ UNCHANGED <<temp_dir, form_data, received>>
    /\ UNCHANGED <<health, rmtree_fails>>

Fetch(url, via, result) == [url |-> url, via |-> via, result |-> result]

DefaultCssFetchesGuarded(valid_paths) ==
    {Fetch(u, "URLFetcher", URLFetcher(valid_paths, u)) : u \in DefaultCssUrls}

\* CSS(string=..., font_config=font_config): no url_fetcher is given, the
\* engine loads the @font-face sources with its default fetcher
DefaultCssFetches(valid_paths) ==
    {Fetch(u, "default_url_fetcher", Delegated) : u \in DefaultCssUrls}

\* css = CSS(filename=form_data['css'], ...) or the built-in stylesheet; then
\* the attachments list
Css(r) ==
    /\ pc[r] = "css"
    /\ loop = r
    /\ \E ok \in BOOLEAN :
         IF DictHas(form_data[r], CssName)
         THEN LET read == ReadFile(DictGet(form_data[r], CssName))
              IN  IF ok /\ read # NoRead
                  THEN /\ engine' = [engine EXCEPT
                                       ![r].calls = @ \cup {"CSS"},
                                       ![r].css = "file",
                                       ![r].cssfile = read,
                                       ![r].attachments = Attachments(form_data[r])]
                       /\ pc' = [pc EXCEPT ![r] = "write_pdf"]
                       /\ UNCHANGED <<loop, dirs, files, part, outfile, response,
                                      outcome>>
                  ELSE /\ engine' = [engine EXCEPT ![r].calls = @ \cup {"CSS"}]
                       /\ Raise(r, "Exception")
         ELSE /\ engine' = [engine EXCEPT
                              ![r].calls = @ \cup {"CSS"},
                              ![r].css = "default",
                              ![r].fetch = DefaultCssFetches(Values(form_data[r])),
                              ![r].attachments = Attachments(form_data[r])]
              /\ pc' = [pc EXCEPT ![r] = "write_pdf"]
              /\ UNCHANGED <<loop, dirs, files, part, outfile, response, outcome>>
    /\ UNCHANGED <<temp_dir, form_data, received>>
    /\ UNCHANGED <<health, rmtree_fails>>

\* inside html.write_pdf: the engine asks html's url_fetcher for a URL
EngineFetch(r, full) ==
    /\ pc[r] = "write_pdf"
    /\ loop = r
    /\ \E url \in UrlMenu(temp_dir[r], full) :
         engine' = [engine EXCEPT
                      ![r].calls = @ \cup {"write_pdf"},
                      ![r].fetch =
                          {Fetch(url, "URLFetcher",
                                 URLFetcher(Values(form_data[r]), url))}]
    /\ UNCHANGED <<pc, loop, temp_dir, form_data, part, dirs, files, outfile,
                   response, received, outcome>>
    /\ UNCHANGED <<health, rmtree_fails>>

PdfFilenameOutside(r) == Join(TmpRoot, PdfName)

\* pdf_filename = os.path.join(temp_dir, 'output.pdf')
PdfFilename(r) == Join(temp_dir[r], PdfName)

\* what html.write_pdf may do: raise, or write a document of some size
WritePdfOutcomes(full) ==
    {[ok |-> FALSE, size |-> 0]}
        \cup {[ok |-> TRUE, size |-> n] : n \in ArtifactSizes(full)}

\* html.write_pdf(pdf_filename, ...) returns or raises
WritePdf(r, full) ==
    /\ pc[r] = "write_pdf"
    /\ loop = r
    /\ \E res \in WritePdfOutcomes(full) :
         LET file == Resolve(PdfFilename(r), dirs)
         IN  IF res.ok /\ file.ok
             THEN /\ files' = [OpenWrite(files, file.path, r, <<r, 0>>)
                                 EXCEPT ![file.path].len = res.size]
                  /\ engine' = [engine EXCEPT
                                  ![r].calls = @ \cup {"write_pdf"},
                                  ![r].fetch = {},
                                  ![r].artifact = [src |-> <<r, 0>>, len |-> res.size]]
                  /\ pc' = [pc EXCEPT ![r] = "prepare"]
                  /\ loop' = 0
                  /\ UNCHANGED <<dirs, part, outfile, response, outcome>>
             ELSE /\ engine' = [engine EXCEPT ![r].calls = @ \cup {"write_pdf"},
                                              ![r].fetch = {}]
                  /\ Finish(r, "return", "", RenderFailed)
    /\ UNCHANGED <<temp_dir, form_data, received>>
    /\ UNCHANGED <<health, rmtree_fails>>

(***************************************************************************)
(* stream_file (server.py:131-153)                                         *)
(***************************************************************************)

PdfHeaders(filename) ==
    [ctype |-> "application/pdf",
     cdisp |-> <<"attachment; filename=\"">> \o Basename(filename) \o <<"\"">>]

ReadDataWhole(f, file, off) ==
    IF file \in DOMAIN f
    THEN [src |-> f[file].src, lo |-> off, hi |-> Max(f[file].len, off)]
    ELSE [src |-> Nobody, lo |-> off, hi |-> off]

\* data = outfile.read(CHUNK_SIZE) at offset off: the bytes lo..hi-1 of the file
ReadData(f, file, off) ==
    IF file \in DOMAIN f
    THEN [src |-> f[file].src, lo |-> off,
          hi |-> off + Min(CHUNK_SIZE, Max(f[file].len - off, 0))]
    ELSE [src |-> Nobody, lo |-> off, hi |-> off]

\* the loop of server.py:145-149 from a read to the next await
ReadThenAwait(r, file, off) ==
    LET data == ReadData(files, file, off)
    IN  /\ outfile' = [outfile EXCEPT ![r] = [file |-> file, off |-> data.hi,
                                              data |-> data]]
        /\ pc' = [pc EXCEPT ![r] = IF data.hi = data.lo THEN "write_eof" ELSE "write"]

\* await response.prepare(request) is done: the status line and headers are out
PrepareDone(r) ==
    /\ pc[r] = "prepare"
    /\ loop = 0
    /\ response' = [response EXCEPT ![r].status = 200,
                                    ![r].headers = PdfHeaders(PdfFilename(r))]
    /\ ReadThenAwait(r, Resolve(PdfFilename(r), dirs).path, 0)
    /\ UNCHANGED <<loop, temp_dir, form_data, part, dirs, files, engine, received,
                   outcome>>
    /\ UNCHANGED <<health, rmtree_fails>>

\* await response.write(data) is done
WriteDone(r) ==
    /\ pc[r] = "write"
    /\ loop = 0
    /\ response' = [response EXCEPT ![r].chunks = Append(@, outfile[r].data)]
    /\ ReadThenAwait(r, outfile[r].file, outfile[r].off)
    /\ UNCHANGED <<loop, temp_dir, form_data, part, dirs, files, engine, received,
                   outcome>>
    /\ UNCHANGED <<health, rmtree_fails>>

\* await response.write_eof() is done; return response
WriteEofDone(r) ==
    /\ pc[r] = "write_eof"
    /\ loop = 0
    /\ Finish(r, "return", "", [response[r] EXCEPT !.eof = @ + 1])
    /\ UNCHANGED <<temp_dir, form_data, engine, received>>
    /\ UNCHANGED <<health, rmtree_fails>>

\* the awaits of the handler inside the with block
Suspensions == {"next", "read_chunk", "prepare", "write", "write_eof"}

AbortLeak(r) ==
    /\ pc[r] \in Suspensions
    /\ loop = 0
    /\ pc' = [pc EXCEPT ![r] = "done"]
    /\ outcome' = [outcome EXCEPT ![r] = [how |-> "abort", at |-> pc[r],
                                          exc |-> "ConnectionError",
                                          teardown |-> "none"]]
    /\ UNCHANGED <<loop, temp_dir, form_data, part, dirs, files, engine, outfile,
                   response, received>>
    /\ UNCHANGED <<health, rmtree_fails>>

\* the client closes the connection: the pending await of r raises
Abort(r) ==
    /\ pc[r] \in Suspensions
    /\ loop = 0
    /\ Finish(r, "abort", "ConnectionError", response[r])
    /\ UNCHANGED <<temp_dir, form_data, engine, received>>
    /\ UNCHANGED <<health, rmtree_fails>>

(***************************************************************************)
(* Specifications                                                          *)
(***************************************************************************)

\* healthchecks answered in one behaviour
MaxHealth == 2

HealthOK == [status |-> 200, text |-> "OK"]

HealthcheckTouches ==
    /\ loop = 0
    /\ health.n < MaxHealth
    /\ health' = [status |-> HealthOK.status, text |-> HealthOK.text,
                  n |-> health.n + 1]
    /\ dirs' = dirs \cup {<<"tmp", "health">>}
    /\ UNCHANGED <<pc, loop, temp_dir, form_data, part, files, engine, outfile,
                   response, received, outcome, rmtree_fails>>

\* healthcheck (server.py:156-157): return web.Response(status=200, text="OK");
\* it has no await, so it runs whenever the event loop is free
Healthcheck ==
    /\ loop = 0
    /\ health.n < MaxHealth
    /\ health' = [status |-> HealthOK.status, text |-> HealthOK.text,
                  n |-> health.n + 1]
    /\ UNCHANGED <<pc, loop, temp_dir, form_data, part, dirs, files, engine,
                   outfile, response, received, outcome, rmtree_fails>>

Handler(r, full) ==
    \/ Multipart(r)
    \/ NextPart(r, full)
    \/ NextMalformed(r)
    \/ ReadChunk(r)
    \/ NextEnd(r)
    \/ Validate(r)
    \/ Html(r)
    \/ Css(r)
    \/ EngineFetch(r, full)
    \/ WritePdf(r, full)
    \/ PrepareDone(r)
    \/ WriteDone(r)
    \/ WriteEofDone(r)
    \/ Abort(r)

Next == \E r \in Reqs : Handler(r, TRUE)

NextConc == \E r \in Reqs : Handler(r, FALSE)

NextHealth == (\E r \in Reqs : Handler(r, FALSE)) \/ Healthcheck

NextFault == \E r \in Reqs : Handler(r, FALSE)

\* one request, every part and URL of the menus
Spec == Init /\ [][Next]_vars

\* two requests on one event loop
SpecConc == InitConc /\ [][NextConc]_vars

\* one request and GET /healthcheck on one event loop
SpecHealth == InitHealth /\ [][NextHealth]_vars

\* one request on a file system whose rmtree may raise
SpecFault == InitFault /\ [][NextFault]_vars

(***************************************************************************)
(* Properties                                                              *)
(***************************************************************************)

\* the body of r was not well-formed multipart
Malformed(r) == outcome[r].how = "raise" /\ outcome[r].exc = "ValueError"

\* the client of r closed the connection
Aborted(r) == outcome[r].how = "abort"

ReceivedNames(r) == {received[r][i].name : i \in 1..Len(received[r])}

\* form_data.values() as a set: the Valid Path Set of the request
ValidPathSet(r) == {form_data[r][i].val : i \in 1..Len(form_data[r])}

\* the workspace of r is gone from the disk, with everything in it
WorkspaceGone(r) ==
    /\ DirOf(temp_dir[r]) \notin dirs
    /\ \A f \in DOMAIN files : ~Under(DirOf(temp_dir[r]), f)

\* C1: a request whose received parts hold no part named 'html' is answered
\* with status 400, and neither HTML(...), CSS(...) nor write_pdf is called
\* for it.
C1_NoHtmlGives400 ==
    \A r \in Reqs :
        (/\ pc[r] = "done"
         /\ ~Aborted(r)
         /\ ~Malformed(r)
         /\ HtmlName \notin ReceivedNames(r))
        => /\ response[r].status = 400
           /\ engine[r].calls = {}

\* C2: once the handler of a request that created its workspace has finished,
\* by whichever exit (200 streamed, 400, 500, an exception while ingesting,
\* rendering or streaming), the workspace directory no longer exists.
C2_WorkspaceRemoved ==
    \A r \in Reqs :
        (pc[r] = "done" /\ temp_dir[r] # <<>>) => WorkspaceGone(r)

\* an exception left the handler while the engine was building its inputs,
\* after files had been ingested into the workspace
C2_Witness ==
    \E r \in Reqs :
        /\ pc[r] = "done"
        /\ outcome[r].how = "raise"
        /\ outcome[r].at = "css"
        /\ Len(form_data[r]) >= 2
        /\ WorkspaceGone(r)

\* C9: a body that is not well-formed multipart (request.multipart() or
\* reader.next() raises) is answered with a 4xx status, never a 5xx.
C9_MalformedGives4xx ==
    \A r \in Reqs :
        (pc[r] = "done" /\ Malformed(r))
        => (response[r].status >= 400 /\ response[r].status < 500)

\* the files of workspace ws on disk
FilesOf(ws, f) == [q \in {x \in DOMAIN f : Under(DirOf(ws), x)} |-> f[q]]

\* the step in which the pending await of r raises because the client is gone
AbortStep(r) == outcome[r].how = "running" /\ outcome'[r].how = "abort"

\* C3: when the client aborts at a suspension point of a request, that request
\* stops (nothing more is read or written for it), its workspace is removed,
\* and every other request is left as it was: same position, same response,
\* same ingested parts, its workspace and files still on disk, and the event
\* loop free to run it.
C3_AbortTearsDownAlone ==
    [][\A r \in Reqs :
        /\ AbortStep(r) =>
             /\ pc[r] \in Suspensions
             /\ pc'[r] = "done"
             /\ loop' = 0
             /\ response'[r] = response[r]
             /\ received'[r] = received[r]
             /\ part'[r] = NoPart
             /\ outfile'[r] = NoOut
             /\ temp_dir[r] # <<>>
             /\ DirOf(temp_dir[r]) \notin dirs'
             /\ \A f \in DOMAIN files' : ~Under(DirOf(temp_dir[r]), f)
             /\ \A q \in Reqs \ {r} :
                  /\ pc'[q] = pc[q]
                  /\ outcome'[q] = outcome[q]
                  /\ response'[q] = response[q]
                  /\ form_data'[q] = form_data[q]
                  /\ part'[q] = part[q]
                  /\ outfile'[q] = outfile[q]
                  /\ engine'[q] = engine[q]
                  /\ temp_dir[q] # <<>> =>
                       /\ (DirOf(temp_dir[q]) \in dirs) = (DirOf(temp_dir[q]) \in dirs')
                       /\ FilesOf(temp_dir[q], files') = FilesOf(temp_dir[q], files)
        /\ Aborted(r) =>
             /\ pc[r] = "done"
             /\ pc'[r] = "done"
             /\ response'[r] = response[r]
             /\ received'[r] = received[r]
             /\ form_data'[r] = form_data[r]
      ]_vars

\* one request was aborted mid-download, after a chunk had gone out, while the
\* other is mid-upload
C3_Witness ==
    \E r \in Reqs, q \in Reqs :
        /\ r # q
        /\ Aborted(r)
        /\ outcome[r].at = "write"
        /\ response[r].chunks # <<>>
        /\ pc[q] = "read_chunk"
        /\ DirOf(temp_dir[q]) \in dirs
        /\ DirOf(temp_dir[r]) \notin dirs

\* C4: the guard delegates every data: URL, refuses every URL whose scheme is
\* not data, empty or file, and delegates a URL of empty or file scheme exactly
\* when its path is not empty and, made absolute and normalized, is an entry
\* of the request's Valid Path Set.
C4_GuardDecision ==
    \A r \in Reqs : \A f \in engine[r].fetch :
        f.via = "URLFetcher" =>
            LET u == Urlparse(f.url)
            IN  /\ f.result \in {Delegated, DeniedPath, DeniedExternal}
                /\ u.scheme = "data" => f.result = Delegated
                /\ u.scheme \notin {"data", "", "file"} => f.result # Delegated
                /\ u.scheme \in {"", "file"} =>
                     (f.result = Delegated
                        <=> (u.path # <<>> /\ Abspath(u.path) \in ValidPathSet(r)))

\* the guard delegated a file URL whose path reaches an ingested file through ".."
C4_Witness ==
    \E r \in Reqs : \E f \in engine[r].fetch :
        /\ f.via = "URLFetcher"
        /\ f.result = Delegated
        /\ Urlparse(f.url).scheme = "file"
        /\ ".." \in Range(Urlparse(f.url).path)
        /\ Abspath(Urlparse(f.url).path) \in ValidPathSet(r)

\* the indices of the received parts of r whose field name starts 'attachment.'
IsAttachmentPart(r, i) == StartsWith(received[r][i].name, AttachmentPrefix)

\* the file save_part_to_file wrote for the i-th received part of r
PartFile(r, i) == Join(temp_dir[r], received[r][i].filename)

RECURSIVE ReceivedAttachmentFiles(_, _)
ReceivedAttachmentFiles(r, i) ==
    IF i > Len(received[r]) THEN <<>>
    ELSE (IF IsAttachmentPart(r, i) THEN <<PartFile(r, i)>> ELSE <<>>)
         \o ReceivedAttachmentFiles(r, i + 1)

\* the engine has been handed its attachment list
AttachmentsPassed(r) == engine[r].css # "unset"

\* C5 as stated: the attachment list passed to the engine is the files of the
\* 'attachment.*' parts in the order in which the parts were received, also
\* when a field name occurs more than once.
C5_AttachmentsInReceivedOrder ==
    \A r \in Reqs :
        AttachmentsPassed(r) =>
            engine[r].attachments = ReceivedAttachmentFiles(r, 1)

\* part i is the first received part of its field name
FirstOfName(r, i) ==
    \A j \in 1..(i - 1) : received[r][j].name # received[r][i].name

\* the last received part with the field name of part i
LastOfName(r, i) ==
    CHOOSE j \in i..Len(received[r]) :
        /\ received[r][j].name = received[r][i].name
        /\ \A h \in (j + 1)..Len(received[r]) :
               received[r][h].name # received[r][i].name

RECURSIVE AttachmentFilesByName(_, _)
AttachmentFilesByName(r, i) ==
    IF i > Len(received[r]) THEN <<>>
    ELSE (IF IsAttachmentPart(r, i) /\ FirstOfName(r, i)
          THEN <<PartFile(r, LastOfName(r, i))>> ELSE <<>>)
         \o AttachmentFilesByName(r, i + 1)

\* C5 amended: the attachment list holds one file per distinct 'attachment.*'
\* field name, the file of the last part received under that name, and the
\* names stand in the order in which each was first received; with no field
\* name repeated this is the files of the parts in the order received.
C5_AttachmentsByFirstReceipt ==
    \A r \in Reqs :
        AttachmentsPassed(r) =>
            /\ engine[r].attachments = AttachmentFilesByName(r, 1)
            /\ (\A i, j \in 1..Len(received[r]) :
                    (i # j /\ IsAttachmentPart(r, i))
                        => received[r][i].name # received[r][j].name)
               => engine[r].attachments = ReceivedAttachmentFiles(r, 1)

\* the engine was handed the one file of a field name that came twice
C5_Witness ==
    \E r \in Reqs :
        /\ AttachmentsPassed(r)
        /\ Len(engine[r].attachments) = 1
        /\ Len(ReceivedAttachmentFiles(r, 1)) = 2
        /\ engine[r].attachments[1] = ReceivedAttachmentFiles(r, 1)[2]
        /\ engine[r].attachments[1] # ReceivedAttachmentFiles(r, 1)[1]

\* the regular file a path string names
FileAt(path) == Resolve(path, dirs).path

\* the file at path was written by request r alone, or is not there
OwnFile(r, path) ==
    FileAt(path) \in DOMAIN files => files[FileAt(path)].by \subseteq {r}

\* C6: two requests that run side by side have distinct workspaces, and
\* neither writes, reads, serves through its guard or attaches a file that the
\* other ingested or generated.
C6_NoInterference ==
    /\ \A r \in Reqs, q \in Reqs :
           (r # q /\ temp_dir[r] # <<>>) => temp_dir[r] # temp_dir[q]
    /\ \A f \in DOMAIN files : Cardinality(files[f].by) <= 1
    /\ \A r \in Reqs :
           /\ engine[r].html.src[1] \in {0, r}
           /\ engine[r].cssfile.src[1] \in {0, r}
           /\ pc[r] = "write_pdf" =>
                /\ \A i \in 1..Len(engine[r].attachments) :
                       OwnFile(r, engine[r].attachments[i])
                /\ \A f \in engine[r].fetch :
                       (f.via = "URLFetcher" /\ f.result = Delegated
                            /\ Urlparse(f.url).scheme = "file")
                       => OwnFile(r, Abspath(Urlparse(f.url).path))

\* the request reached the stylesheet step with an 'html' and no 'css' part
NoCssPart(r) ==
    /\ engine[r].css # "unset"
    /\ DictHas(form_data[r], HtmlName)
    /\ ~DictHas(form_data[r], CssName)

\* C7 as stated: with an 'html' and no 'css' part the built-in stylesheet is
\* used, every fetch of the render goes through the guard, and nothing is
\* fetched that is not a data: URL or a file of the request's Valid Path Set.
C7_DefaultCssFetchesNothingOutside ==
    \A r \in Reqs :
        NoCssPart(r) =>
            /\ engine[r].css = "default"
            /\ \A f \in engine[r].fetch :
                   /\ f.via = "URLFetcher"
                   /\ f.result = Delegated =>
                        \/ Urlparse(f.url).scheme = "data"
                        \/ Abspath(Urlparse(f.url).path) \in ValidPathSet(r)

ProjectFont(name) ==
    <<"file", ":", "/", "/", "/", "home", "/", "user", "/", "project", "/", name>>

\* C7 amended: with an 'html' and no 'css' part the built-in stylesheet is
\* used (and only then); building it makes the engine fetch exactly its two
\* font files, file:///home/user/project/Zeitung-Micro-Pro.ttf and
\* file:///home/user/project/Tisa-Pro.ttf, with the engine's default fetcher
\* and not through the guard; no other fetch bypasses the guard, and every
\* fetch the document causes during write_pdf goes through the guard.
C7_DefaultCssFetchesItsFonts ==
    \A r \in Reqs :
        /\ engine[r].css # "unset" =>
             (engine[r].css = "default" <=> NoCssPart(r))
        /\ (NoCssPart(r) /\ "write_pdf" \notin engine[r].calls) =>
             engine[r].fetch =
                 { [url |-> ProjectFont("Zeitung-Micro-Pro.ttf"),
                    via |-> "default_url_fetcher", result |-> Delegated],
                   [url |-> ProjectFont("Tisa-Pro.ttf"),
                    via |-> "default_url_fetcher", result |-> Delegated] }
        /\ \A f \in engine[r].fetch :
               f.via # "URLFetcher" =>
                   /\ engine[r].css = "default"
                   /\ "write_pdf" \notin engine[r].calls
                   /\ Urlparse(f.url).scheme = "file"
                   /\ Urlparse(f.url).netloc = <<>>
        /\ "write_pdf" \in engine[r].calls =>
               \A f \in engine[r].fetch : f.via = "URLFetcher"

\* the built-in stylesheet has just been built for a request with attachments
C7_Witness ==
    \E r \in Reqs :
        /\ NoCssPart(r)
        /\ pc[r] = "write_pdf"
        /\ "write_pdf" \notin engine[r].calls
        /\ Cardinality(engine[r].fetch) = 2
        /\ engine[r].attachments # <<>>

\* an engine step of r failed: HTML(...), CSS(...) or write_pdf raised
EngineFailed(r) ==
    /\ pc[r] = "done"
    /\ \/ outcome[r].how = "raise" /\ outcome[r].at \in {"html", "css"}
       \/ outcome[r].how = "return" /\ outcome[r].at = "write_pdf"

\* C8: when an engine step fails the client receives status 500 with the
\* handler's fixed message and no body byte of a document; a 200 response is
\* begun only after write_pdf has returned.
C8_EngineFailureGivesFixed500 ==
    \A r \in Reqs :
        /\ EngineFailed(r) =>
             /\ response[r].status = 500
             /\ response[r].text = "PDF generation failed."
             /\ response[r].chunks = <<>>
        /\ response[r].status = 200 => engine[r].artifact.src = <<r, 0>>

\* the bytes of the response body sent so far
Sent(r) ==
    IF response[r].chunks = <<>> THEN 0 ELSE Last(response[r].chunks).hi

\* C10: stream_file sends status 200 with Content-Type application/pdf and
\* Content-Disposition attachment; filename="output.pdf" before any body byte;
\* the chunks written are non-empty, of at most CHUNK_SIZE bytes, and are
\* consecutive pieces of the artifact from its first byte; the chunk held
\* while a write is pending is the piece right after the bytes written, the
\* only piece read and not yet written; end-of-body is signalled once, after
\* the whole artifact has been written.
C10_StreamsArtifactInChunks ==
    \A r \in Reqs :
        LET resp == response[r]
            art  == engine[r].artifact
        IN  /\ (resp.chunks # <<>> \/ resp.eof > 0 \/ pc[r] \in {"write", "write_eof"})
                 => /\ resp.status = 200
                    /\ resp.headers.ctype = "application/pdf"
                    /\ resp.headers.cdisp
                         = <<"attachment; filename=\"", "output.pdf", "\"">>
                    /\ art.src = <<r, 0>>
            /\ \A i \in 1..Len(resp.chunks) :
                   /\ resp.chunks[i].src = art.src
                   /\ resp.chunks[i].lo = (IF i = 1 THEN 0 ELSE resp.chunks[i - 1].hi)
                   /\ resp.chunks[i].hi > resp.chunks[i].lo
                   /\ resp.chunks[i].hi - resp.chunks[i].lo <= CHUNK_SIZE
                   /\ resp.chunks[i].hi <= art.len
            /\ pc[r] = "write" =>
                   /\ outfile[r].data.src = art.src
                   /\ outfile[r].data.lo = Sent(r)
                   /\ outfile[r].data.hi > outfile[r].data.lo
                   /\ outfile[r].data.hi - outfile[r].data.lo <= CHUNK_SIZE
                   /\ outfile[r].data.hi <= art.len
                   /\ outfile[r].off = outfile[r].data.hi
            /\ pc[r] = "write_eof" => (Sent(r) = art.len /\ resp.eof = 0)
            /\ resp.eof \in {0, 1}
            /\ resp.eof = 1 => (Sent(r) = art.len /\ pc[r] = "done")
            /\ (pc[r] = "done" /\ outcome[r].how = "return" /\ resp.status = 200)
                 => resp.eof = 1

\* an artifact of CHUNK_SIZE + 1 bytes went out as two chunks and end-of-body
C10_Witness ==
    \E r \in Reqs :
        /\ response[r].eof = 1
        /\ engine[r].artifact.len = CHUNK_SIZE + 1
        /\ Len(response[r].chunks) = 2
        /\ response[r].chunks[1].hi = CHUNK_SIZE
        /\ response[r].chunks[2].hi = CHUNK_SIZE + 1

\* the field name is none of 'html', 'css', 'attachment.*', 'asset.*'
OtherName(name) ==
    /\ name \notin {<<"html">>, <<"css">>}
    /\ ~(Len(name) >= 2 /\ name[1] \in {"attachment", "asset"} /\ name[2] = ".")

\* the field names of the received 'attachment.*' parts of r
AttachmentNames(r) ==
    {received[r][i].name : i \in {j \in 1..Len(received[r]) : IsAttachmentPart(r, j)}}

C12_HealthcheckPure ==
    /\ []((loop = 0 /\ health.n < MaxHealth) => ENABLED Healthcheck)
    /\ []((health.n > 0) => (health.status = 200 /\ health.text = "OK"))
    /\ [][health' # health =>
             /\ health'.n = health.n + 1
             /\ UNCHANGED <<pc, loop, temp_dir, form_data, part, dirs, files,
                            engine, outfile, response, received, outcome,
                            rmtree_fails>>
        ]_vars

\* the healthcheck was answered while a render request was mid-upload, with
\* its workspace and a half-written file on disk
C12_Witness ==
    /\ health.n = 1
    /\ health.status = 200
    /\ \E r \in Reqs :
           /\ pc[r] = "read_chunk"
           /\ part[r].off > 0
           /\ DirOf(temp_dir[r]) \in dirs

\* the phase of a request, by the line its handler is at
Phase(p) ==
    CASE p \in {"absent", "multipart"} -> "Received"
      [] p \in {"next", "read_chunk"} -> "Ingesting"
      [] p = "validate" -> "Validating"
      [] p \in {"html", "css", "write_pdf"} -> "Rendering"
      [] p \in {"prepare", "write", "write_eof"} -> "Streaming"
      [] p = "done" -> "Done"

\* the moves Received -> Ingesting -> Validating -> Rendering -> Streaming
Forward ==
    { <<"Received", "Ingesting">>, <<"Ingesting", "Validating">>,
      <<"Validating", "Rendering">>, <<"Rendering", "Streaming">> }

\* the phases do not overlap: validation and the engine start only after
\* reader.next() has returned its end marker, with no part half-written, and
\* a 200 response begins only after write_pdf has written the document
PhasesApart(r) ==
    /\ Phase(pc[r]) \in {"Validating", "Rendering", "Streaming"} =>
          /\ part[r] = NoPart
          /\ \A i \in 1..Len(form_data[r]) :
                 \E k \in 1..Len(received[r]) : form_data[r][i].val = PartFile(r, k)
    /\ Phase(pc[r]) \in {"Received", "Ingesting", "Validating"} =>
          engine[r].calls = {}
    /\ engine[r].calls # {} =>
          (pc[r] = "done" => outcome[r].at \notin {"multipart", "next", "read_chunk", "validate"})
    /\ response[r].status = 200 =>
          /\ "write_pdf" \in engine[r].calls
          /\ engine[r].artifact.src = <<r, 0>>
          /\ Phase(pc[r]) \in {"Streaming", "Done"}
    /\ Phase(pc[r]) = "Streaming" => engine[r].artifact.src = <<r, 0>>

\* C13 as stated: the phases do not overlap, the state of a request moves
\* only along Received -> Ingesting -> Validating -> Rendering -> Streaming
\* -> Done, and a request that does not complete its 200 response reaches
\* Done only from Validating or Rendering.
C13_ErrorExitsOnlyFromValidatingRendering ==
    /\ [](\A r \in Reqs : PhasesApart(r))
    /\ [][\A r \in Reqs :
            Phase(pc'[r]) # Phase(pc[r]) =>
                \/ <<Phase(pc[r]), Phase(pc'[r])>> \in Forward
                \/ /\ pc[r] = "write_eof"
                   /\ pc'[r] = "done"
                   /\ outcome'[r].how = "return"
                \/ /\ Phase(pc[r]) \in {"Validating", "Rendering"}
                   /\ pc'[r] = "done"
                   /\ response'[r].status >= 400
       ]_vars

\* C13 amended: the phases do not overlap and the state of a request moves
\* only one phase forward along Received -> Ingesting -> Validating ->
\* Rendering -> Streaming -> Done, or from any phase straight to Done:
\* from Validating with status 400 (no 'html'), from Rendering with status
\* 500 (an engine step failed), from Received or Ingesting when an exception
\* leaves the handler (status 500), and from Ingesting or Streaming when
\* the client aborts (nothing more is sent).
C13_PhasesInOrder ==
    /\ [](\A r \in Reqs : PhasesApart(r))
    /\ [][\A r \in Reqs :
            Phase(pc'[r]) # Phase(pc[r]) =>
                \/ <<Phase(pc[r]), Phase(pc'[r])>> \in Forward
                \/ /\ pc[r] = "write_eof"
                   /\ pc'[r] = "done"
                   /\ outcome'[r].how = "return"
                   /\ response'[r].status = 200
                \/ /\ Phase(pc[r]) = "Validating"
                   /\ pc'[r] = "done"
                   /\ outcome'[r].how = "return"
                   /\ response'[r].status = 400
                \/ /\ Phase(pc[r]) = "Rendering"
                   /\ pc'[r] = "done"
                   /\ outcome'[r].how \in {"return", "raise"}
                   /\ response'[r].status = 500
                \/ /\ Phase(pc[r]) \in {"Received", "Ingesting"}
                   /\ pc'[r] = "done"
                   /\ outcome'[r].how = "raise"
                   /\ response'[r].status = 500
                \/ /\ Phase(pc[r]) \in {"Ingesting", "Streaming"}
                   /\ pc'[r] = "done"
                   /\ outcome'[r].how = "abort"
                   /\ response'[r] = response[r]
       ]_vars

\* a request went to Done straight from Ingesting: an exception left the
\* handler after a part had been ingested
C13_Witness ==
    \E r \in Reqs :
        /\ pc[r] = "done"
        /\ outcome[r].how = "raise"
        /\ outcome[r].at = "next"
        /\ Len(form_data[r]) >= 1
        /\ response[r].status = 500

\* the positions of form_data whose key is an 'attachment.*' or 'asset.*' name
ExtraEntries(r) ==
    {i \in 1..Len(form_data[r]) :
        \/ StartsWith(form_data[r][i].key, AttachmentPrefix)
        \/ StartsWith(form_data[r][i].key, AssetPrefix)}

\* C14: after ingestion the request holds at most one 'html' entry and at most
\* one 'css' entry, and two 'attachment.*'/'asset.*' entries of different
\* field names have different file paths and name different files, whatever
\* filenames the parts declared.
C14_DistinctEntriesDistinctFiles ==
    \A r \in Reqs :
        /\ Cardinality({i \in 1..Len(form_data[r]) : form_data[r][i].key = HtmlName}) <= 1
        /\ Cardinality({i \in 1..Len(form_data[r]) : form_data[r][i].key = CssName}) <= 1
        /\ \A i, j \in ExtraEntries(r) :
               form_data[r][i].key # form_data[r][j].key =>
                   /\ form_data[r][i].val # form_data[r][j].val
                   /\ FileAt(form_data[r][i].val) # FileAt(form_data[r][j].val)

\* the received parts of r that were written to disk
RecognizedParts(r) ==
    {k \in 1..Len(received[r]) : ~OtherName(received[r][k].name)}

\* the absolute paths of the files written for the recognized parts of r
WrittenPaths(r) == {Abspath(PartFile(r, k)) : k \in RecognizedParts(r)}

\* C15: at render time the Valid Path Set is exactly the set of absolute
\* paths of the files written for the recognized parts of the request, and
\* the guard delegates the file URL of every ingested 'asset.*' file, also
\* of a field name received more than once and whatever filename it declared.
C15_ValidPathSetIsWrittenFiles ==
    \A r \in Reqs :
        Phase(pc[r]) = "Rendering" =>
            /\ ValidPathSet(r) = WrittenPaths(r)
            /\ \A k \in RecognizedParts(r) :
                   StartsWith(received[r][k].name, AssetPrefix) =>
                       URLFetcher(Values(form_data[r]),
                                  FileURL(Abspath(PartFile(r, k)))) = Delegated

\* the files on disk that hold the document write_pdf wrote for r
ArtifactFiles(r) == {f \in DOMAIN files : files[f].src = <<r, 0>>}

\* C16: from the return of write_pdf until stream_file has written
\* end-of-body the artifact is on disk, whole, in the workspace: the
\* workspace is not torn down while the request is streaming (teardown comes
\* only with the end of the handler), and the artifact is in no file but
\* <workspace>/output.pdf.
C16_ArtifactKeptWhileStreaming ==
    \A r \in Reqs :
        /\ Phase(pc[r]) = "Streaming" =>
              /\ DirOf(temp_dir[r]) \in dirs
              /\ outcome[r].teardown = "none"
              /\ ArtifactFiles(r) = {Append(DirOf(temp_dir[r]), "output.pdf")}
              /\ files[Append(DirOf(temp_dir[r]), "output.pdf")].len
                    = engine[r].artifact.len
        /\ (temp_dir[r] # <<>> /\ pc[r] # "done") => DirOf(temp_dir[r]) \in dirs
        /\ \A f \in ArtifactFiles(r) : Under(DirOf(temp_dir[r]), f)
        /\ pc[r] = "done" => ArtifactFiles(r) = {}

\* the first chunk of a two-chunk artifact is out, the second is being
\* written, and the artifact is still on disk
C16_Witness ==
    \E r \in Reqs :
        /\ pc[r] = "write"
        /\ Len(response[r].chunks) = 1
        /\ engine[r].artifact.len = CHUNK_SIZE + 1
        /\ FileAt(PdfFilename(r)) \in ArtifactFiles(r)

\* C17: the workspace of a finished request was torn down once, and when the
\* recursive delete itself raised, the client still has the response the
\* handler had determined: 400 for a missing 'html', the fixed 500 for a
\* failed write_pdf, the complete 200 after streaming.
C17_TeardownFailureSwallowed ==
    \A r \in Reqs :
        pc[r] = "done" =>
            /\ temp_dir[r] # <<>> => outcome[r].teardown \in {"ok", "failed"}
            /\ (outcome[r].how = "return" /\ outcome[r].at = "validate")
                  => response[r] = BadRequest
            /\ (outcome[r].how = "return" /\ outcome[r].at = "write_pdf")
                  => response[r] = RenderFailed
            /\ (outcome[r].how = "return" /\ outcome[r].at = "write_eof")
                  => (response[r].status = 200 /\ response[r].eof = 1)

\* the received parts of r with field name name
PartsNamed(r, name) == {k \in 1..Len(received[r]) : received[r][k].name = name}

\* the last of them
LastNamed(r, name) ==
    CHOOSE k \in PartsNamed(r, name) : \A h \in PartsNamed(r, name) : h <= k

\* what the engine read is the file written for the last part named name:
\* its path, and its bytes unless a later part declared the same file
ReadsLast(r, read, name) ==
    /\ PartsNamed(r, name) # {}
    /\ read.path = PartFile(r, LastNamed(r, name))
    /\ (\A h \in (LastNamed(r, name) + 1)..Len(received[r]) :
            OtherName(received[r][h].name)
                \/ FileAt(PartFile(r, h)) # FileAt(read.path))
         => read.src = <<r, LastNamed(r, name)>>

\* C18: whether one or several parts named 'html' (or 'css') were received,
\* the root document (the stylesheet) the engine reads is the file written
\* for the last such part, and the request is not rejected: it is answered
\* 400 only when no part named 'html' was received.
C18_LastHtmlCssWins ==
    \A r \in Reqs :
        /\ engine[r].html # NoRead => ReadsLast(r, engine[r].html, HtmlName)
        /\ engine[r].cssfile # NoRead => ReadsLast(r, engine[r].cssfile, CssName)
        /\ engine[r].css = "file" => engine[r].cssfile # NoRead
        /\ (Phase(pc[r]) \in {"Validating", "Rendering", "Streaming"}
              /\ PartsNamed(r, HtmlName) # {})
             => DictGet(form_data[r], HtmlName) = PartFile(r, LastNamed(r, HtmlName))
        /\ (pc[r] = "done" /\ outcome[r].at = "validate")
             => PartsNamed(r, HtmlName) = {}
        /\ response[r].status = 400 => PartsNamed(r, HtmlName) = {}

\* two parts named 'html' with different filenames were received and the
\* engine went on to render the second one's file
C18_Witness ==
    \E r \in Reqs :
        /\ Cardinality(PartsNamed(r, HtmlName)) = 2
        /\ pc[r] = "write_pdf"
        /\ engine[r].html.src = <<r, LastNamed(r, HtmlName)>>
        /\ \E k \in PartsNamed(r, HtmlName) :
               PartFile(r, k) # engine[r].html.path

\* C19: every file that ingestion creates or overwrites lies inside the
\* workspace of the request that wrote it, whatever filename the part
\* declared (absolute, with '..' or path separators, or missing).
C19_IngestedFilesInsideWorkspace ==
    /\ \A f \in DOMAIN files :
           \A r \in files[f].by : Under(DirOf(temp_dir[r]), f)
    /\ \A r \in Reqs :
           part[r] # NoPart => Under(DirOf(temp_dir[r]), part[r].file)

\* C20: the path of the generated artifact, <workspace>/output.pdf, is not
\* the path of an ingested part and is not in the Valid Path Set: write_pdf
\* overwrites no uploaded file, whatever filenames the parts declared.
C20_ArtifactPathNotIngested ==
    \A r \in Reqs :
        Phase(pc[r]) \in {"Rendering", "Streaming"} =>
            /\ PdfFilename(r) \notin ValidPathSet(r)
            /\ \A k \in RecognizedParts(r) :
                   FileAt(PartFile(r, k)) # FileAt(PdfFilename(r))
            /\ engine[r].html.path # PdfFilename(r)

====
